---- MODULE Spec2Model ----
(***************************************************************************)
(* A model of photobundle.cc: the bilinear sampler interp2, the fixed      *)
(* patch extractors, ZnccPatch, PhotometricBundleAdjustment::ScenePoint    *)
(* and the frame entry point PhotometricBundleAdjustment::addFrame.        *)
(*                                                                         *)
(* Real numbers are exact rationals.  A coordinate is a numerator over the *)
(* common denominator Den; a sampled value is an integer scaled by Den^2.  *)
(***************************************************************************)
EXTENDS Integers, Sequences, FiniteSets, TLC

VARIABLES I, op, args, ret, dst, reads, patch, scr, sp, pba, outcome

vars == <<I, op, args, ret, dst, reads, patch, scr, sp, pba, outcome>>

(* ----------------------------- bounds ---------------------------------- *)

\* coordinates are multiples of 1/Den
Den == 2
\* largest raster
MaxRows == 2
MaxCols == 2
\* the template parameter R of the patch extractors and of ZnccPatch
Radius == 1

PixelVals == {1, 3}
FillVals == {0, 7}
Offsets == {0, 1}
\* what a read outside the raster may return
Garbage == {0, 9}

Dimension == (2 * Radius + 1) * (2 * Radius + 1)

(* ----------------------------- rasters --------------------------------- *)

\* a raster of the given size; a pixel's real value is px[r][c] * 10^(-exp)
RastersOf(nr, nc, vals, exps) ==
    { [rows |-> nr, cols |-> nc, px |-> p, exp |-> e] :
        p \in [0 .. nr - 1 -> [0 .. nc - 1 -> vals]], e \in exps }

Rasters ==
    UNION { RastersOf(nr, nc, PixelVals, {0}) : nr \in 1 .. MaxRows, nc \in 1 .. MaxCols }

InBounds(img, cell) ==
    /\ 0 <= cell[1] /\ cell[1] < img.rows
    /\ 0 <= cell[2] /\ cell[2] < img.cols

OutOfBounds(img, cells) == { cell \in cells : ~InBounds(img, cell) }

\* I(r, c): the pixel, or whatever lies at that address outside the raster
At(img, r, c, g) ==
    IF InBounds(img, <<r, c>>) THEN img.px[r][c] ELSE g[<<r, c>>]

(* ----------------------------- interp2 --------------------------------- *)

Floor(n) == n \div Den
Frac(n) == n % Den

interp2Interior(img, xi, yi, xf, yf, g) ==
    (Den - yf) * (At(img, yi, xi, g) * (Den - xf) + At(img, yi, xi + 1, g) * xf)
      + yf * (At(img, yi + 1, xi, g) * (Den - xf) + At(img, yi + 1, xi + 1, g) * xf)

\* the edge cases without the corner case: the last pixel is rejected
interp2Edge_NoCorner(img, xi, yi, xf, yf, fillval, g) ==
    LET max_cols == img.cols - 1
        max_rows == img.rows - 1
    IN  IF xi = max_cols /\ yi < max_rows
        THEN IF xf > 0 THEN fillval * Den * Den
             ELSE Den * ((Den - yf) * At(img, yi, xi, g) + yf * At(img, yi + 1, xi, g))
        ELSE IF yi = max_rows /\ xi < max_cols
        THEN IF yf > 0 THEN fillval * Den * Den
             ELSE Den * ((Den - xf) * At(img, yi, xi, g) + xf * At(img, yi, xi + 1, g))
        ELSE fillval * Den * Den

\* the edge cases with the two weights of each blend exchanged
interp2Edge_SwappedWeights(img, xi, yi, xf, yf, fillval, g) ==
    LET max_cols == img.cols - 1
        max_rows == img.rows - 1
    IN  IF xi = max_cols /\ yi < max_rows
        THEN IF xf > 0 THEN fillval * Den * Den
             ELSE Den * (yf * At(img, yi, xi, g) + (Den - yf) * At(img, yi + 1, xi, g))
        ELSE IF yi = max_rows /\ xi < max_cols
        THEN IF yf > 0 THEN fillval * Den * Den
             ELSE Den * (xf * At(img, yi, xi, g) + (Den - xf) * At(img, yi, xi + 1, g))
        ELSE IF xi = max_cols /\ yi = max_rows
        THEN IF xf > 0 \/ yf > 0 THEN fillval * Den * Den
             ELSE Den * Den * At(img, yi, xi, g)
        ELSE fillval * Den * Den

interp2Edge(img, xi, yi, xf, yf, fillval, g) ==
    LET max_cols == img.cols - 1
        max_rows == img.rows - 1
    IN  IF xi = max_cols /\ yi < max_rows
        THEN IF xf > 0 THEN fillval * Den * Den
             ELSE Den * ((Den - yf) * At(img, yi, xi, g) + yf * At(img, yi + 1, xi, g))
        ELSE IF yi = max_rows /\ xi < max_cols
        THEN IF yf > 0 THEN fillval * Den * Den
             ELSE Den * ((Den - xf) * At(img, yi, xi, g) + xf * At(img, yi, xi + 1, g))
        ELSE IF xi = max_cols /\ yi = max_rows
        THEN IF xf > 0 \/ yf > 0 THEN fillval * Den * Den
             ELSE Den * Den * At(img, yi, xi, g)
        ELSE fillval * Den * Den

\* the value returned, scaled by Den^2
interp2(img, xn, yn, fillval, offset, g) ==
    LET max_cols == img.cols - 1
        max_rows == img.rows - 1
        xi == Floor(xn + offset)
        yi == Floor(yn + offset)
        xf == Frac(xn + offset)
        yf == Frac(yn + offset)
    IN  IF xi >= 0 /\ xi < max_cols /\ yi >= 0 /\ yi < max_rows
        THEN interp2Interior(img, xi, yi, xf, yf, g)
        ELSE interp2Edge(img, xi, yi, xf, yf, fillval, g)

\* the cells I(row, col) that interp2 evaluates
interp2Reads(img, xn, yn, offset) ==
    LET max_cols == img.cols - 1
        max_rows == img.rows - 1
        xi == Floor(xn + offset)
        yi == Floor(yn + offset)
        xf == Frac(xn + offset)
        yf == Frac(yn + offset)
    IN  IF xi >= 0 /\ xi < max_cols /\ yi >= 0 /\ yi < max_rows
        THEN {<<yi, xi>>, <<yi, xi + 1>>, <<yi + 1, xi>>, <<yi + 1, xi + 1>>}
        ELSE IF xi = max_cols /\ yi < max_rows
        THEN IF xf > 0 THEN {} ELSE {<<yi, xi>>, <<yi + 1, xi>>}
        ELSE IF yi = max_rows /\ xi < max_cols
        THEN IF yf > 0 THEN {} ELSE {<<yi, xi>>, <<yi, xi + 1>>}
        ELSE IF xi = max_cols /\ yi = max_rows
        THEN IF xf > 0 \/ yf > 0 THEN {} ELSE {<<yi, xi>>}
        ELSE {}

(* ------------------------ fixed patch extractors ------------------------ *)

\* position in dst of grid offset (c, r): the loops run column-major
PatchIndex(c, r) == (c + Radius) * (2 * Radius + 1) + (r + Radius) + 1
PatchCol(i) == ((i - 1) \div (2 * Radius + 1)) - Radius
PatchRow(i) == ((i - 1) % (2 * Radius + 1)) - Radius

interpolateFixedPatch(img, pxn, pyn, fillval, offset, g) ==
    [i \in 1 .. Dimension |->
        interp2(img, pxn + offset + PatchCol(i) * Den, pyn + offset + PatchRow(i) * Den,
                fillval, 0, g)]

interpolateFixedPatchReads(img, pxn, pyn, offset) ==
    UNION { interp2Reads(img, pxn + offset + PatchCol(i) * Den,
                         pyn + offset + PatchRow(i) * Den, 0) : i \in 1 .. Dimension }

\* std::round: halves go away from zero
Round(n) ==
    IF n >= 0 THEN (2 * n + Den) \div (2 * Den) ELSE -((Den - 2 * n) \div (2 * Den))

Min(a, b) == IF a < b THEN a ELSE b
Max(a, b) == IF a > b THEN a ELSE b

copyClamp(v, hi) == Max(Radius, Min(v, hi))

copyFixedPatchCell(img, pxn, pyn, i) ==
    <<copyClamp(Round(pyn) + PatchRow(i), img.rows - 1),
      copyClamp(Round(pxn) + PatchCol(i), img.cols - 1)>>

copyFixedPatch(img, pxn, pyn, g) ==
    [i \in 1 .. Dimension |->
        LET cell == copyFixedPatchCell(img, pxn, pyn, i)
        IN  At(img, cell[1], cell[2], g)]

copyFixedPatchReads(img, pxn, pyn) ==
    { copyFixedPatchCell(img, pxn, pyn, i) : i \in 1 .. Dimension }


(* ------------------------- exact big naturals -------------------------- *)

\* A natural number as its base-10000 digits, least significant first, without
\* leading zeros: the products of squared norms do not fit a machine integer.
BigBase == 100 * 100

RECURSIVE BigCarry(_, _)
BigCarry(ds, carry) ==
    IF ds = <<>>
    THEN IF carry = 0 THEN <<>> ELSE <<carry % BigBase>> \o BigCarry(<<>>, carry \div BigBase)
    ELSE <<(Head(ds) + carry) % BigBase>>
           \o BigCarry(Tail(ds), (Head(ds) + carry) \div BigBase)

RECURSIVE BigTrim(_)
BigTrim(ds) ==
    IF ds # <<>> /\ ds[Len(ds)] = 0 THEN BigTrim(SubSeq(ds, 1, Len(ds) - 1)) ELSE ds

BigOf(n) == BigTrim(BigCarry(<<n>>, 0))

RECURSIVE BigColumn(_, _, _, _)
BigColumn(x, y, k, i) ==
    IF i > Len(x) THEN 0
    ELSE (IF k - i + 1 >= 1 /\ k - i + 1 <= Len(y) THEN x[i] * y[k - i + 1] ELSE 0)
           + BigColumn(x, y, k, i + 1)

BigMul(x, y) ==
    IF x = <<>> \/ y = <<>> THEN <<>>
    ELSE BigTrim(BigCarry([k \in 1 .. Len(x) + Len(y) - 1 |-> BigColumn(x, y, k, 1)], 0))

BigGt(x, y) ==
    \/ Len(x) > Len(y)
    \/ /\ Len(x) = Len(y)
       /\ \E k \in 1 .. Len(x) : x[k] > y[k] /\ \A j \in k + 1 .. Len(x) : x[j] = y[j]

RECURSIVE SmallPow10(_)
SmallPow10(m) == IF m = 0 THEN 1 ELSE 10 * SmallPow10(m - 1)

BigPow10(m) ==
    [i \in 1 .. (m \div 4) + 1 |-> IF i = (m \div 4) + 1 THEN SmallPow10(m % 4) ELSE 0]

Abs(n) == IF n < 0 THEN -n ELSE n
Sign(n) == IF n < 0 THEN -1 ELSE IF n > 0 THEN 1 ELSE 0

(* ----------------------------- ZnccPatch ------------------------------- *)

RECURSIVE SeqSum(_)
SeqSum(q) == IF q = <<>> THEN 0 ELSE Head(q) + SeqSum(Tail(q))

Dot(u, v) == SeqSum([i \in 1 .. Len(u) |-> u[i] * v[i]])

\* one unit of _data is 10^(-exp) / DataScale
DataScale == Dimension * Den * Den

\* d > 1e-6 is decided at 10^(-ScoreEpsExp)
ScoreEpsExp == 6

MeanSubtract(samples, total) ==
    [i \in 1 .. Dimension |-> Dimension * samples[i] - total]

\* the squared norm cached in place of the norm
ZnccPatchOf_SquaredNorm(data, e) ==
    [_data |-> data, _norm2 |-> Dot(data, data) * Dot(data, data), exp |-> e]

ZnccPatchOf(data, e) == [_data |-> data, _norm2 |-> Dot(data, data), exp |-> e]

\* ZnccPatch::set.  _data[i] is the mean-subtracted sample in units of
\* 10^(-exp) / DataScale; _norm is held exactly, as its square _norm2 in the
\* square of that unit.
ZnccSetFrom(samples, e) == ZnccPatchOf(MeanSubtract(samples, SeqSum(samples)), e)

ZnccSet(img, uxn, uyn, g) ==
    ZnccSetFrom(interpolateFixedPatch(img, uxn, uyn, 0, 0, g), img.exp)

DataScale4 ==
    BigMul(BigMul(BigOf(DataScale), BigOf(DataScale)),
           BigMul(BigOf(DataScale), BigOf(DataScale)))

\* xy * 10^m > DataScale^4, for a big natural xy and an integer m
ScaledAbove(xy, m) ==
    IF m >= 0 THEN BigGt(BigMul(xy, BigPow10(m)), DataScale4)
    ELSE BigGt(xy, BigMul(DataScale4, BigPow10(-m)))

\* xy * 10^m < DataScale^4
ScaledBelow(xy, m) ==
    IF m >= 0 THEN BigGt(DataScale4, BigMul(xy, BigPow10(m)))
    ELSE BigGt(BigMul(DataScale4, BigPow10(-m)), xy)

\* sqrt(x) * sqrt(y) * 10^(-e) / DataScale^2 > 10^(-k), for naturals x, y
ProductAbove(x, y, e, k) == ScaledAbove(BigMul(BigOf(x), BigOf(y)), 2 * k - 2 * e)

\* the sentinel -1.0, written as the quotient -1 / sqrt(1 * 1)
Sentinel == [computed |-> FALSE, num |-> -1, den |-> <<1, 1>>]

\* d > 0 in place of d > 1e-6
ZnccNormProductOk_Positive(a, b) == a._norm2 > 0 /\ b._norm2 > 0

\* T d = _norm * other._norm;  d > 1e-6
ZnccNormProductOk(a, b) == ProductAbove(a._norm2, b._norm2, a.exp + b.exp, ScoreEpsExp)


\* the patch's own norm used twice: d = _norm * _norm
ZnccScore_OwnNorm(a, b) ==
    IF ZnccNormProductOk(a, a)
    THEN [computed |-> TRUE, num |-> Dot(a._data, b._data), den |-> <<a._norm2, a._norm2>>]
    ELSE Sentinel

\* ZnccPatch::score.  The value returned is num / sqrt(den[1] * den[2]): the
\* units of the dot product and of the norm product cancel.
ZnccScore(a, b) ==
    IF ZnccNormProductOk(a, b)
    THEN [computed |-> TRUE, num |-> Dot(a._data, b._data), den |-> <<a._norm2, b._norm2>>]
    ELSE Sentinel

\* equality of two returned values
ScoreEq(s, t) ==
    /\ Sign(s.num) = Sign(t.num)
    /\ BigMul(BigMul(BigOf(Abs(s.num)), BigOf(Abs(s.num))),
              BigMul(BigOf(t.den[1]), BigOf(t.den[2])))
         = BigMul(BigMul(BigOf(Abs(t.num)), BigOf(Abs(t.num))),
                  BigMul(BigOf(s.den[1]), BigOf(s.den[2])))

One == [computed |-> TRUE, num |-> 1, den |-> <<1, 1>>]

\* the cached norm of a is below 10^(-k)
NormBelow(a, k) ==
    ScaledBelow(BigMul(BigOf(a._norm2), BigOf(a._norm2)), 4 * k - 4 * a.exp)

(* --------------------------- idle components --------------------------- *)

NoRaster == [rows |-> 0, cols |-> 0, px |-> <<>>, exp |-> 0]
NoArgs == [xn |-> 0, yn |-> 0, fillval |-> 0, offset |-> 0]

SamplerIdle ==
    I = NoRaster /\ op = "none" /\ args = NoArgs /\ ret = 0 /\ dst = <<>> /\ reads = {}
ZnccIdle == patch = <<>> /\ scr = <<>>
PointIdle == sp = <<>>
EngineIdle == pba = <<>> /\ outcome = "none"

(* --------------------------- sampler calls ----------------------------- *)

\* coordinates from one pixel before the raster to one pixel past it
CoordRange(n) == (-Den) .. (n * Den)

SamplerArgs(img) ==
    { [xn |-> xn, yn |-> yn, fillval |-> fillval, offset |-> offset] :
        xn \in CoordRange(img.cols), yn \in CoordRange(img.rows),
        fillval \in FillVals, offset \in Offsets }

\* interp2(I, xf, yf, fillval, offset) on the drawn arguments
Interp2Call ==
    /\ op = "none"
    /\ op' = "interp2"
    /\ reads' = interp2Reads(I, args.xn, args.yn, args.offset)
    /\ \E g \in [OutOfBounds(I, interp2Reads(I, args.xn, args.yn, args.offset)) -> Garbage] :
          ret' = interp2(I, args.xn, args.yn, args.fillval, args.offset, g)
    /\ dst' = <<>>
    /\ UNCHANGED <<I, args, patch, scr, sp, pba, outcome>>

\* copyFixedPatch<Radius>(dst, I, p) with p = (xf, yf) of the drawn arguments
CopyFixedPatchCall ==
    /\ op = "none"
    /\ op' = "copy"
    /\ reads' = copyFixedPatchReads(I, args.xn, args.yn)
    /\ \E g \in [OutOfBounds(I, copyFixedPatchReads(I, args.xn, args.yn)) -> Garbage] :
          dst' = copyFixedPatch(I, args.xn, args.yn, g)
    /\ ret' = 0
    /\ UNCHANGED <<I, args, patch, scr, sp, pba, outcome>>

SamplerInit ==
    /\ I \in Rasters
    /\ args \in SamplerArgs(I)
    /\ op = "none" /\ ret = 0 /\ dst = <<>> /\ reads = {}
    /\ ZnccIdle /\ PointIdle /\ EngineIdle

SamplerNext == Interp2Call \/ CopyFixedPatchCall

SpecSampler == SamplerInit /\ [][SamplerNext]_vars

(* --------------------------- sampler claims ---------------------------- *)

\* the coordinate interp2 works on, after the offset is added
ArgXi == Floor(args.xn + args.offset)
ArgYi == Floor(args.yn + args.offset)
ArgXf == Frac(args.xn + args.offset)
ArgYf == Frac(args.yn + args.offset)
FillRet == args.fillval * Den * Den

\* C1: every cell interp2 reads lies inside the raster, and a coordinate whose
\* floor is outside the raster on some axis reads no cell and yields the fill value.
C1_ReadsInBounds ==
    op = "interp2" =>
        /\ \A cell \in reads : InBounds(I, cell)
        /\ ~InBounds(I, <<ArgYi, ArgXi>>) => (reads = {} /\ ret = FillRet)

\* C2: at an integer coordinate inside the raster, with offset 0, interp2 returns
\* exactly I(y, x), whatever the fill value.
C2_ExactAtIntegers ==
    (/\ op = "interp2" /\ args.offset = 0
     /\ Frac(args.xn) = 0 /\ Frac(args.yn) = 0
     /\ InBounds(I, <<Floor(args.yn), Floor(args.xn)>>))
        => ret = Den * Den * I.px[Floor(args.yn)][Floor(args.xn)]

\* C2 witness: the bottom-right corner of a raster with more than one row and
\* column was sampled and the pixel came back although the fill value differs.
C2_Witness ==
    /\ op = "interp2" /\ args.offset = 0
    /\ I.rows > 1 /\ I.cols > 1
    /\ args.xn = (I.cols - 1) * Den /\ args.yn = (I.rows - 1) * Den
    /\ ret = Den * Den * I.px[I.rows - 1][I.cols - 1]
    /\ ret # FillRet

\* C3 as stated: on the last column (not the last row) a non-zero fractional ROW
\* part yields the fill value, and on the last row (not the last column) a
\* non-zero fractional COLUMN part yields the fill value.
C3_Original ==
    op = "interp2" =>
        /\ (ArgXi = I.cols - 1 /\ 0 <= ArgYi /\ ArgYi < I.rows - 1 /\ ArgYf > 0)
              => ret = FillRet
        /\ (ArgYi = I.rows - 1 /\ 0 <= ArgXi /\ ArgXi < I.cols - 1 /\ ArgXf > 0)
              => ret = FillRet

\* C3 amended: on the last column (not the last row) a non-zero fractional COLUMN
\* part yields the fill value and a zero one the linear interpolation down the
\* column; on the last row (not the last column) a non-zero fractional ROW part
\* yields the fill value and a zero one the linear interpolation along the row.
C3_EdgeCases ==
    op = "interp2" =>
        /\ (ArgXi = I.cols - 1 /\ ArgYi < I.rows - 1 /\ ArgXf > 0) => ret = FillRet
        /\ (ArgYi = I.rows - 1 /\ ArgXi < I.cols - 1 /\ ArgYf > 0) => ret = FillRet
        /\ (ArgXi = I.cols - 1 /\ 0 <= ArgYi /\ ArgYi < I.rows - 1 /\ ArgXf = 0)
              => ret = Den * ((Den - ArgYf) * I.px[ArgYi][ArgXi]
                                + ArgYf * I.px[ArgYi + 1][ArgXi])
        /\ (ArgYi = I.rows - 1 /\ 0 <= ArgXi /\ ArgXi < I.cols - 1 /\ ArgYf = 0)
              => ret = Den * ((Den - ArgXf) * I.px[ArgYi][ArgXi]
                                + ArgXf * I.px[ArgYi][ArgXi + 1])

\* C3 witness: a sample on the last column, between two rows of different value,
\* came back as a proper blend of the two and not as the fill value.
C3_Witness ==
    /\ op = "interp2"
    /\ ArgXi = I.cols - 1 /\ 0 <= ArgYi /\ ArgYi < I.rows - 1
    /\ ArgXf = 0 /\ ArgYf > 0
    /\ I.px[ArgYi][ArgXi] # I.px[ArgYi + 1][ArgXi]
    /\ ret = Den * ((Den - ArgYf) * I.px[ArgYi][ArgXi] + ArgYf * I.px[ArgYi + 1][ArgXi])
    /\ ret # FillRet

Clamp(v, lo, hi) == Max(lo, Min(v, hi))

\* C7: copyFixedPatch stores, for every grid offset (c, r), the pixel I(yc, xc)
\* with xc = round(p.x)+c clamped to [0, cols-1] and yc = round(p.y)+r clamped
\* to [0, rows-1]; every index it reads is inside the image.
C7_CopyClamped ==
    op = "copy" =>
        /\ \A cell \in reads : InBounds(I, cell)
        /\ \A c \in -Radius .. Radius, r \in -Radius .. Radius :
              dst[PatchIndex(c, r)] =
                  I.px[Clamp(Round(args.yn) + r, 0, I.rows - 1)]
                      [Clamp(Round(args.xn) + c, 0, I.cols - 1)]


(* ----------------------------- ZNCC calls ------------------------------ *)

PatchNames == {"a", "b"}
Unset == [_data |-> <<>>, _norm2 |-> 0, exp |-> 0, set |-> FALSE]
NoScore == [computed |-> FALSE, num |-> 0, den |-> <<0, 0>>]

\* pixel scales: values of the order of 100 and of the order of 1e-7
ZnccExps == {-2, 7}

\* full-size rasters: a flat ground, or one bright corner pixel on it
ZnccRasters ==
    { [rows |-> MaxRows, cols |-> MaxCols, exp |-> e,
       px |-> [r \in 0 .. MaxRows - 1 |-> [c \in 0 .. MaxCols - 1 |->
                  IF bright = <<r, c>> THEN 3 ELSE ground]]] :
        e \in ZnccExps, ground \in {0, 1},
        bright \in {<<0, 0>>, <<MaxRows - 1, MaxCols - 1>>, <<-1, -1>>} }

\* patch centres: the pixel (1, 1), and a point between it and the next pixel
ZnccCentres == {<<Den, Den>>, <<Den + 1, Den>>}

\* p.set(img, uv), on a default-constructed patch
ZnccSetCall(p, img, uv) ==
    /\ ~patch[p].set
    /\ \E g \in [OutOfBounds(img, interpolateFixedPatchReads(img, uv[1], uv[2], 0)) -> Garbage] :
          patch' = [patch EXCEPT ![p] = ZnccSet(img, uv[1], uv[2], g) @@ [set |-> TRUE]]
    /\ UNCHANGED <<I, op, args, ret, dst, reads, scr, sp, pba, outcome>>

\* p.score(q), both patches produced by set
ZnccScoreCall(p, q) ==
    /\ patch[p].set /\ patch[q].set
    /\ scr[<<p, q>>] = NoScore
    /\ scr' = [scr EXCEPT ![<<p, q>>] = ZnccScore(patch[p], patch[q])]
    /\ UNCHANGED <<I, op, args, ret, dst, reads, patch, sp, pba, outcome>>

ZnccInit ==
    /\ patch = [p \in PatchNames |-> Unset]
    /\ scr = [pq \in PatchNames \X PatchNames |-> NoScore]
    /\ SamplerIdle /\ PointIdle /\ EngineIdle

ZnccNext ==
    \/ \E p \in PatchNames, img \in ZnccRasters, uv \in ZnccCentres : ZnccSetCall(p, img, uv)
    \/ \E p \in PatchNames, q \in PatchNames : ZnccScoreCall(p, q)

SpecZncc == ZnccInit /\ [][ZnccNext]_vars

Scored(p, q) == scr[<<p, q>>] # NoScore


(* ----------------------------- ZNCC claims ----------------------------- *)

\* the real comparisons the claims speak of, on the cached norms
\* _norm(a) * _norm(b) > 10^(-k)
NormProductAbove(a, b, k) ==
    ScaledAbove(BigMul(BigOf(a._norm2), BigOf(b._norm2)), 2 * k - 2 * (a.exp + b.exp))

\* C4: a.score(b) equals b.score(a) for all patches produced by set.
C4_ScoreSymmetric ==
    \A p \in PatchNames, q \in PatchNames :
        (Scored(p, q) /\ Scored(q, p)) => ScoreEq(scr[<<p, q>>], scr[<<q, p>>])

\* C4 witness: two patches of different norm were scored in both orders and the
\* score is a computed, non-zero correlation.
C4_Witness ==
    /\ Scored("a", "b") /\ Scored("b", "a")
    /\ patch["a"]._norm2 # patch["b"]._norm2
    /\ scr[<<"a", "b">>].computed /\ scr[<<"a", "b">>].num # 0

\* C5 as stated: a patch whose norm is non-zero, however small, scores 1.0
\* against itself.
C5_Original ==
    \A p \in PatchNames :
        (Scored(p, p) /\ patch[p]._norm2 > 0) => ScoreEq(scr[<<p, p>>], One)

\* C5 amended: a patch whose norm times itself exceeds 1e-6 scores 1.0 against
\* itself, computed and not the sentinel; any other patch scores the sentinel.
C5_SelfScore ==
    \A p \in PatchNames :
        Scored(p, p) =>
            IF NormProductAbove(patch[p], patch[p], 6)
            THEN scr[<<p, p>>].computed /\ ScoreEq(scr[<<p, p>>], One)
            ELSE scr[<<p, p>>] = Sentinel

\* C5 witness: a patch of norm above 1e-3 was scored against itself.
C5_Witness ==
    /\ Scored("a", "a")
    /\ NormProductAbove(patch["a"], patch["a"], 6)
    /\ scr[<<"a", "a">>].computed

\* C6 as stated: a patch of norm below 1e-6 yields the sentinel in both orders
\* against every other patch, whatever that patch's norm.
C6_Original ==
    \A p \in PatchNames, q \in PatchNames :
        (Scored(p, q) /\ Scored(q, p) /\ NormBelow(patch[p], 6))
            => /\ ScoreEq(scr[<<p, q>>], Sentinel)
               /\ ScoreEq(scr[<<q, p>>], Sentinel)

\* C6 amended: a patch of norm below 1e-6 yields the sentinel, in both orders,
\* against every patch for which the product of the two norms is at most 1e-6
\* (every patch when the norm is exactly zero), and the computed ratio, in both
\* orders, against a patch for which the product exceeds 1e-6.
C6_ProductDecides ==
    \A p \in PatchNames, q \in PatchNames :
        (Scored(p, q) /\ Scored(q, p) /\ NormBelow(patch[p], 6))
            => IF patch[p]._norm2 > 0 /\ NormProductAbove(patch[p], patch[q], 6)
               THEN scr[<<p, q>>].computed /\ scr[<<q, p>>].computed
               ELSE scr[<<p, q>>] = Sentinel /\ scr[<<q, p>>] = Sentinel

\* C6 witness: a patch of non-zero norm below 1e-6 was scored in both orders
\* against a different patch of larger norm and both scores are the sentinel.
C6_Witness ==
    /\ Scored("a", "b") /\ Scored("b", "a")
    /\ patch["a"]._norm2 > 0 /\ NormBelow(patch["a"], 6)
    /\ patch["b"]._norm2 > patch["a"]._norm2
    /\ scr[<<"a", "b">>] = Sentinel /\ scr[<<"b", "a">>] = Sentinel

(* ----------------------------- ScenePoint ------------------------------ *)

\* longest visibility list and largest frame id tried
MaxFrames == 3
MaxFrameId == 2
\* longest descriptor tried
MaxDescriptor == 1

Vec3s == {<<0, 0, 1>>, <<1, 2, 3>>}
Vec2is == {<<0, 0>>, <<1, 1>>}
FrameIds == 0 .. MaxFrameId
Saliencies == {0, 4}

PointRaster ==
    [rows |-> MaxRows, cols |-> MaxCols, exp |-> 0,
     px |-> [r \in 0 .. MaxRows - 1 |-> [c \in 0 .. MaxCols - 1 |->
                IF r = 0 /\ c = 0 THEN 3 ELSE 1]]]

\* ScenePoint(X, f_id); _x has no initializer and holds whatever was there
ScenePoint(X, f_id, x0) ==
    [_X |-> X, _X_original |-> X, _f |-> <<f_id>>, _patch |-> Unset,
     _descriptor |-> <<>>, _saliency |-> 0, _was_refined |-> FALSE, _x |-> x0]

refFrameId(p) == p._f[1]
lastFrameId(p) == p._f[Len(p._f)]
getOriginalPoint(p) == p._X_original
hasFrame(p, f_id) == \E i \in 1 .. Len(p._f) : p._f[i] = f_id

PointUnchanged == UNCHANGED <<I, op, args, ret, dst, reads, patch, scr, pba, outcome>>

\* a write that reaches the snapshot too
PointWriteX_Both(v) ==
    /\ sp' = [sp EXCEPT !._X = v, !._X_original = v]
    /\ PointUnchanged

\* X() = v, a write through the non-const accessor
PointWriteX(v) ==
    /\ sp' = [sp EXCEPT !._X = v]
    /\ PointUnchanged

\* ScenePoint::addFrame
PointAddFrame(f) ==
    /\ Len(sp._f) < MaxFrames
    /\ sp' = [sp EXCEPT !._f = Append(@, f)]
    /\ PointUnchanged

\* ScenePoint::setZnccPach
PointSetZnccPach(img, uv) ==
    /\ \E g \in [OutOfBounds(img, interpolateFixedPatchReads(img, uv[1], uv[2], 0)) -> Garbage] :
          sp' = [sp EXCEPT !._patch = ZnccSet(img, uv[1], uv[2], g) @@ [set |-> TRUE]]
    /\ PointUnchanged

\* descriptor().push_back(v), an edit through the non-const accessor
PointDescriptorPush(v) ==
    /\ Len(sp._descriptor) < MaxDescriptor
    /\ sp' = [sp EXCEPT !._descriptor = Append(@, v)]
    /\ PointUnchanged

PointSetSaliency(v) ==
    /\ sp' = [sp EXCEPT !._saliency = v]
    /\ PointUnchanged

PointSetRefined(v) ==
    /\ sp' = [sp EXCEPT !._was_refined = v]
    /\ PointUnchanged

PointSetFirstProjection(x) ==
    /\ sp' = [sp EXCEPT !._x = x]
    /\ PointUnchanged

\* args keeps the constructor's arguments
PointInit ==
    /\ \E X \in Vec3s, f_id \in FrameIds, x0 \in Vec2is :
          /\ sp = ScenePoint(X, f_id, x0)
          /\ args = [X |-> X, f_id |-> f_id]
    /\ I = NoRaster /\ op = "none" /\ ret = 0 /\ dst = <<>> /\ reads = {}
    /\ ZnccIdle /\ EngineIdle

PointNext ==
    \/ \E v \in Vec3s : PointWriteX(v)
    \/ \E f \in FrameIds : PointAddFrame(f)
    \/ PointSetZnccPach(PointRaster, <<Den + 1, Den>>)
    \/ PointDescriptorPush(5)
    \/ \E v \in Saliencies : PointSetSaliency(v)
    \/ \E v \in BOOLEAN : PointSetRefined(v)
    \/ \E x \in Vec2is : PointSetFirstProjection(x)

SpecPoint == PointInit /\ [][PointNext]_vars

(* ---------------------------- point claims ----------------------------- *)

\* C8: the visibility list has length >= 1, is strictly increasing in frame id
\* and holds no frame id twice, after any sequence of addFrame calls.
C8_VisibilityStrictlyIncreasing ==
    /\ Len(sp._f) >= 1
    /\ \A i \in 1 .. Len(sp._f), j \in 1 .. Len(sp._f) : i < j => sp._f[i] < sp._f[j]

\* C10: getOriginalPoint() returns the construction-time X after any sequence
\* of operations, and a write through X() changes only the current position.
C10_OriginalPointKept == getOriginalPoint(sp) = args.X

\* C10 witness: the position was overwritten, a frame was added, the patch set
\* and the flags changed, and the original point is still the constructor's X.
C10_Witness ==
    /\ sp._X # args.X
    /\ getOriginalPoint(sp) = args.X
    /\ Len(sp._f) > 1 /\ sp._patch.set /\ sp._was_refined
    /\ sp._saliency # 0 /\ sp._descriptor # <<>>

(* ------------------- PhotometricBundleAdjustment ----------------------- *)

ImageSizes == { [rows |-> nr, cols |-> nc] : nr \in 1 .. MaxRows, nc \in 1 .. MaxCols }

\* the constructor stores its three arguments
PhotometricBundleAdjustment(calib, image_size, options) ==
    [_calib |-> calib, _image_size |-> image_size, _options |-> options]

\* addFrame(I_ptr, Z_ptr, T, result): the body is empty; the call returns
\* normally and writes nothing, whatever it is given
EngineAddFrame(image, depth, rigid) ==
    /\ args' = [image |-> image, depth |-> depth, rigid |-> rigid]
    /\ outcome' = "returned"
    /\ UNCHANGED <<I, op, ret, dst, reads, patch, scr, sp, pba>>

EngineInit ==
    /\ \E image_size \in ImageSizes :
          pba = PhotometricBundleAdjustment("calib", image_size, "options")
    /\ outcome = "none"
    /\ SamplerIdle /\ ZnccIdle /\ PointIdle

EngineNext ==
    \E image \in ImageSizes, depth \in ImageSizes, rigid \in BOOLEAN :
        EngineAddFrame(image, depth, rigid)

SpecEngine == EngineInit /\ [][EngineNext]_vars

Malformed(call) ==
    \/ call.image # pba._image_size
    \/ call.depth # pba._image_size
    \/ ~call.rigid

\* C9: a call of addFrame with malformed input (a raster that does not match the
\* configured image size, or a pose that is not rigid) ends in an explicit error
\* outcome, distinguishable from a successful call.
C9_MalformedInputFails ==
    (outcome # "none" /\ Malformed(args)) => outcome = "error"

====
